---- MODULE Spec2Model ----
(***************************************************************************)
(* LuminAIR proving core: the prover orchestrator `prove`                  *)
(* (crates/prover/src/prover.rs), the claim containers                     *)
(* (crates/air/src/lib.rs), the Exp2 lookup witness generator              *)
(* (crates/air/src/components/lookups/exp2/witness.rs) and the Exp2        *)
(* evaluator (crates/air/src/components/exp2/component.rs).                *)
(*                                                                         *)
(* Values of the base field M31 are integers modulo 2^31 - 1.  Values of   *)
(* the extension field QM31 that depend on Fiat-Shamir challenges are kept *)
(* symbolic: a LogUp fraction is a numerator in M31 over a denominator     *)
(* named by the relation's elements and the combined values, and a sum of  *)
(* fractions is the map from denominators to the M31 sum of their          *)
(* numerators.  Such a sum is zero exactly when every coefficient is zero, *)
(* which is the LogUp argument's reading for challenges that make no two   *)
(* denominators collide.                                                   *)
(***************************************************************************)
EXTENDS Integers, Sequences, FiniteSets, TLC

\* ------------------------------------------------------------------ bounds
\* Longest list of trace tables in a PIE.
MaxTables == 2
\* Largest row count of the single-table PIEs.
MaxRows == 33
\* Largest multiplicity of a lookup table row.
MaxMult == 2

\* --------------------------------------------------------------- constants
\* stwo's SIMD lane width: N_LANES = 1 << LOG_N_LANES = 16.
LOG_N_LANES == 4
N_LANES == 2 ^ LOG_N_LANES
\* The Mersenne prime of M31 (2^31 - 1).
M31_P == 2147483647
DEFAULT_FP_SCALE == 12

None == [none |-> TRUE]

\* The optional per-operator fields of LuminairClaim, in declaration order.
Ops ==
  << "add", "mul", "recip", "sin", "sin_lookup",
     "sum_reduce", "max_reduce", "sqrt", "exp2", "exp2_lookup" >>

OpSet == { Ops[i] : i \in 1..Len(Ops) }

\* ----------------------------------------------------------- M31 arithmetic
\* Addition and negation in M31, written so that no intermediate value
\* leaves the 32-bit range.
AddM31(a, b) == IF a >= M31_P - b THEN a - (M31_P - b) ELSE a + b

NegM31(a) == IF a = 0 THEN 0 ELSE M31_P - a

\* -PackedQM31::one() * multiplicity, lane by lane.
NegOneTimes(m) == NegM31(m % M31_P)

\* ------------------------------------------------------------ usize helpers
Max(a, b) == IF a >= b THEN a ELSE b

RECURSIVE PowerOfTwoFrom(_, _)
PowerOfTwoFrom(n, p) == IF p >= n THEN p ELSE PowerOfTwoFrom(n, 2 * p)

\* usize::next_power_of_two: the smallest power of two >= n (1 for n = 0).
NextPowerOfTwo(n) == PowerOfTwoFrom(n, 1)

RECURSIVE ILog2(_)
\* usize::ilog2: floor of log2 (x >= 1).
ILog2(x) == IF x <= 1 THEN 0 ELSE 1 + ILog2(x \div 2)

\* ------------------------------------------------------------- trace tables
\* Exp2LookupTraceTableRow::padding(): the canonical padding row.
PaddingRow(op) ==
  IF op = "exp2_lookup" THEN [multiplicity |-> 0]
  ELSE IF op = "exp2" THEN
    [node_id |-> 0, input_id |-> 0, idx |-> 0, is_last_idx |-> 1,
     next_node_id |-> 0, next_input_id |-> 0, next_idx |-> 0,
     input_val |-> 0, out_val |-> 0, rem_val |-> 0, scale |-> 0,
     input_mult |-> 0, out_mult |-> 0]
  ELSE [v |-> 0]

\* Vec::resize(size, padding) for size >= Len(rows).
Resize(rows, size, pad) ==
  [i \in 1..Max(size, Len(rows)) |-> IF i <= Len(rows) THEN rows[i] ELSE pad]

\* pack_values: consecutive chunks of N_LANES scalar rows, one packed row each.
PackValues(rows) ==
  [r \in 1..(Len(rows) \div N_LANES) |->
     [l \in 1..N_LANES |-> rows[(r - 1) * N_LANES + l]]]

\* One field of a packed row: the lanes of that field.
PackedField(prow, f) == [l \in 1..N_LANES |-> prow[l][f]]

\* write_trace_simd: the content of the main column and of the lookup data
\* once every row task has run.
write_trace_simd(inputs) ==
  LET log_n_packed_rows == ILog2(Len(inputs))
      log_size == log_n_packed_rows + LOG_N_LANES
  IN [log_size |-> log_size,
      trace |-> [r \in 1..(2 ^ (log_size - LOG_N_LANES)) |->
                   PackedField(inputs[r], "multiplicity")],
      lookup_data |->
        [multiplicities |-> [r \in 1..(2 ^ log_n_packed_rows) |->
                               PackedField(inputs[r], "multiplicity")]]]

\* write_trace without its empty check: an empty table is padded like any other.
write_trace_unchecked(rows) ==
  LET size == Max(NextPowerOfTwo(Len(rows)), N_LANES)
      simd == write_trace_simd(
                PackValues(Resize(rows, size, PaddingRow("exp2_lookup"))))
  IN [ok |-> TRUE,
      evals |-> simd.trace,
      claim |-> [log_size |-> ILog2(size)],
      gen |-> [log_size |-> ILog2(size), lookup_data |-> simd.lookup_data]]

\* write_trace padding to the power of two above n_rows + 1: a full table of
\* a power-of-two row count is padded to twice its size.
write_trace_overpadded(rows) ==
  LET n_rows == Len(rows) IN
  IF n_rows = 0 THEN [ok |-> FALSE, err |-> "EmptyTrace"]
  ELSE
    LET size == Max(NextPowerOfTwo(n_rows + 1), N_LANES)
        simd == write_trace_simd(
                  PackValues(Resize(rows, size, PaddingRow("exp2_lookup"))))
    IN [ok |-> TRUE,
        evals |-> simd.trace,
        claim |-> [log_size |-> ILog2(size)],
        gen |-> [log_size |-> ILog2(size), lookup_data |-> simd.lookup_data]]

\* Exp2LookupClaimGenerator::write_trace on the rows of a table.
write_trace(rows) ==
  LET n_rows == Len(rows) IN
  IF n_rows = 0 THEN [ok |-> FALSE, err |-> "EmptyTrace"]
  ELSE
    LET size == Max(NextPowerOfTwo(n_rows), N_LANES)
        log_size == ILog2(size)
        table == Resize(rows, size, PaddingRow("exp2_lookup"))
        packed_inputs == PackValues(table)
        simd == write_trace_simd(packed_inputs)
    IN [ok |-> TRUE,
        evals |-> simd.trace,
        claim |-> [log_size |-> log_size],
        gen |-> [log_size |-> log_size, lookup_data |-> simd.lookup_data]]

\* write_trace of an operator whose witness generator follows the same
\* contract: empty check, padding to max(next_power_of_two(n), N_LANES),
\* packing, one claim and one interaction generator holding the packed rows.
write_trace_operator(op, rows) ==
  LET n_rows == Len(rows) IN
  IF n_rows = 0 THEN [ok |-> FALSE, err |-> "EmptyTrace"]
  ELSE
    LET size == Max(NextPowerOfTwo(n_rows), N_LANES)
        log_size == ILog2(size)
        packed_inputs == PackValues(Resize(rows, size, PaddingRow(op)))
    IN [ok |-> TRUE,
        evals |-> packed_inputs,
        claim |-> [log_size |-> log_size],
        gen |-> [log_size |-> log_size, lookup_data |-> packed_inputs]]

\* The match of prove's main loop: the witness generator of the table's tag.
WriteTraceOf(table) ==
  IF table.op = "exp2_lookup" THEN write_trace(table.rows)
  ELSE write_trace_operator(table.op, table.rows)

\* ------------------------------------------------------ preprocessed trace
\* Row i of the Exp2 LUT: inputs on a stride of one fixed-point unit,
\* outputs round(2^input * 2^scale) to first order in the input.
LutValue(col_index, i) ==
  IF col_index = 0 THEN i
  ELSE 2 ^ DEFAULT_FP_SCALE + ((693147 * i + 500000) \div 1000000)

\* lookups_to_preprocessed_column: two columns per LUT declared in settings.
lookups_to_preprocessed_column(lookups) ==
  IF lookups.exp2 = None THEN << >>
  ELSE << [lut |-> "exp2", col_index |-> 0, log_size |-> lookups.exp2.log_size],
          [lut |-> "exp2", col_index |-> 1, log_size |-> lookups.exp2.log_size] >>

\* PreProcessedColumn::gen_column().data: 2^(log_size - LOG_N_LANES) packed rows.
gen_column(col) ==
  [r \in 1..(2 ^ (col.log_size - LOG_N_LANES)) |->
     [l \in 1..N_LANES |-> LutValue(col.col_index, (r - 1) * N_LANES + (l - 1))]]

\* PreProcessedTrace::columns_of::<Exp2PreProcessed>().
columns_of(preprocessed_trace, lut) ==
  SelectSeq(preprocessed_trace, LAMBDA c : c.lut = lut)

RECURSIVE InsertByKey(_, _)
InsertByKey(sorted, c) ==
  IF sorted = << >> THEN << c >>
  ELSE IF c.col_index < Head(sorted).col_index THEN << c >> \o sorted
  ELSE << Head(sorted) >> \o InsertByKey(Tail(sorted), c)

RECURSIVE sort_by_col_index(_)
\* sort_by_key(|c| c.col_index) (stable).
sort_by_col_index(cols) ==
  IF cols = << >> THEN << >>
  ELSE InsertByKey(sort_by_col_index(SubSeq(cols, 1, Len(cols) - 1)),
                   cols[Len(cols)])

\* ---------------------------------------------------------- LogUp fractions
\* Relation::combine(elements, values): the denominator of a fraction.
Combine(elements, vals) == [elements |-> elements, vals |-> vals]

\* The fractions of a LogUp column, one per (packed row, lane), in row order.
Flatten(fracs) ==
  [k \in 1..(Len(fracs) * N_LANES) |->
     LET r == ((k - 1) \div N_LANES) + 1
         l == ((k - 1) % N_LANES) + 1
     IN [num |-> fracs[r].num[l], denom |-> fracs[r].denom[l]]]

RECURSIVE CoefficientIn(_, _, _, _)
\* The M31 sum of the numerators over denominator d among entries lo..hi.
CoefficientIn(flat, d, lo, hi) ==
  IF lo > hi THEN 0
  ELSE IF lo = hi THEN (IF flat[lo].denom = d THEN flat[lo].num ELSE 0)
  ELSE LET mid == (lo + hi) \div 2
       IN AddM31(CoefficientIn(flat, d, lo, mid),
                 CoefficientIn(flat, d, mid + 1, hi))

Coefficient(flat, d) == CoefficientIn(flat, d, 1, Len(flat))

ZeroSum == [d \in {} |-> 0]

\* LogupTraceGenerator::finalize_last: the claimed sum of the fractions.
LogupSum(flat) ==
  LET ds == { flat[k].denom : k \in 1..Len(flat) }
      nz == { d \in ds : Coefficient(flat, d) # 0 }
  IN [d \in nz |-> Coefficient(flat, d)]

\* Sum of two claimed sums.
AddSums(a, b) ==
  LET c(d) == AddM31(IF d \in DOMAIN a THEN a[d] ELSE 0,
                     IF d \in DOMAIN b THEN b[d] ELSE 0)
  IN [d \in { e \in (DOMAIN a) \cup (DOMAIN b) : c(e) # 0 } |-> c(d)]

\* The part of a claimed sum that lies over one relation.
RelationPart(sum, relation) ==
  [d \in { e \in DOMAIN sum : e.elements.relation = relation } |-> sum[d]]

\* write_interaction_trace without the negation of the multiplicity.
write_interaction_trace_positive(self, elements, lut) ==
  IF Len(lut) < 1 THEN [ok |-> FALSE, panic |-> "missing exp2 col 0"]
  ELSE IF Len(lut) < 2 THEN [ok |-> FALSE, panic |-> "missing exp2 col 1"]
  ELSE
    LET lut_col_0 == gen_column(lut[1])
        lut_col_1 == gen_column(lut[2])
        n_rows == 2 ^ (self.log_size - LOG_N_LANES)
        multiplicities == self.lookup_data.multiplicities
    IN IF \E row \in 1..n_rows :
            \/ row > Len(multiplicities)
            \/ row > Len(lut_col_0)
            \/ row > Len(lut_col_1)
       THEN [ok |-> FALSE, panic |-> "index out of bounds"]
       ELSE
         LET fracs ==
               [row \in 1..n_rows |->
                  [num |-> [l \in 1..N_LANES |-> multiplicities[row][l]],
                   denom |-> [l \in 1..N_LANES |->
                                Combine(elements,
                                        << lut_col_0[row][l], lut_col_1[row][l] >>)]]]
         IN [ok |-> TRUE,
             trace |-> fracs,
             claim |-> [claimed_sum |-> LogupSum(Flatten(fracs))]]

\* Exp2LookupInteractionClaimGenerator::write_interaction_trace.
write_interaction_trace(self, elements, lut) ==
  IF Len(lut) < 1 THEN [ok |-> FALSE, panic |-> "missing exp2 col 0"]
  ELSE IF Len(lut) < 2 THEN [ok |-> FALSE, panic |-> "missing exp2 col 1"]
  ELSE
    LET lut_col_0 == gen_column(lut[1])
        lut_col_1 == gen_column(lut[2])
        n_rows == 2 ^ (self.log_size - LOG_N_LANES)
        multiplicities == self.lookup_data.multiplicities
    IN IF \E row \in 1..n_rows :
            \/ row > Len(multiplicities)
            \/ row > Len(lut_col_0)
            \/ row > Len(lut_col_1)
       THEN [ok |-> FALSE, panic |-> "index out of bounds"]
       ELSE
         LET fracs ==
               [row \in 1..n_rows |->
                  [num |-> [l \in 1..N_LANES |-> NegOneTimes(multiplicities[row][l])],
                   denom |-> [l \in 1..N_LANES |->
                                Combine(elements,
                                        << lut_col_0[row][l], lut_col_1[row][l] >>)]]]
         IN [ok |-> TRUE,
             trace |-> fracs,
             claim |-> [claimed_sum |-> LogupSum(Flatten(fracs))]]

\* Exp2Eval::evaluate, interaction constraints: the relation entries the
\* evaluator adds for one row.
Exp2RelationEntries(lookup_elements, row) ==
  << [elements |-> lookup_elements, mult |-> row.input_mult,
      vals |-> << row.input_val, row.input_id >>],
     [elements |-> lookup_elements, mult |-> row.out_mult,
      vals |-> << row.out_val, row.node_id >>] >>

\* The LogUp column of the exp2 component: per row, the fractions of the
\* relation entries of its evaluator.  The claimed sum of the component is
\* the sum of this column; a proof carrying another value does not satisfy
\* the component's LogUp constraint.
Exp2Fractions(packed_rows, lookup_elements) ==
  LET n_entries == Len(Exp2RelationEntries(lookup_elements, PaddingRow("exp2")))
  IN [k \in 1..(Len(packed_rows) * N_LANES * n_entries) |->
        LET e == ((k - 1) % n_entries) + 1
            i == (k - 1) \div n_entries
            r == (i \div N_LANES) + 1
            l == (i % N_LANES) + 1
            entry == Exp2RelationEntries(lookup_elements, packed_rows[r][l])[e]
        IN [num |-> entry.mult % M31_P,
            denom |-> Combine(entry.elements, entry.vals)]]

\* ------------------------------------------------------- claim containers
\* LuminairClaim::mix_into: the order of its if-let chain.
ClaimMixOrder ==
  << "add", "mul", "recip", "sin", "sin_lookup",
     "sum_reduce", "max_reduce", "sqrt", "exp2", "exp2_lookup" >>

\* LuminairClaim::log_sizes: the order of its if-let chain.
LogSizesOrder ==
  << "add", "mul", "recip", "sin", "sin_lookup",
     "sum_reduce", "max_reduce", "sqrt", "exp2", "exp2_lookup" >>

\* The interaction chain with the add and mul blocks exchanged.
InteractionOrder_swapped ==
  << "mul", "add", "recip", "sin", "sin_lookup",
     "sum_reduce", "max_reduce", "sqrt", "exp2", "exp2_lookup" >>

\* prove, interaction phase: the order of its if-let chain.
InteractionOrder ==
  << "add", "mul", "recip", "sin", "sin_lookup",
     "sum_reduce", "max_reduce", "sqrt", "exp2", "exp2_lookup" >>

\* LuminairInteractionClaim::mix_into: the order of its if-let chain.
InteractionMixOrder ==
  << "add", "mul", "recip", "sin", "sin_lookup",
     "sum_reduce", "max_reduce", "sqrt", "exp2", "exp2_lookup" >>

\* The fields of a container that are Some, in the given order.
Present(order, container) == SelectSeq(order, LAMBDA o : container[o] # None)

\* LuminairClaim::default() and the other containers' defaults.
DefaultContainer == [o \in OpSet |-> None]

\* LuminairClaim::mix_into: what the channel absorbs, in order.
LuminairClaim_mix_into(self) ==
  LET present == Present(ClaimMixOrder, self)
  IN [i \in 1..Len(present) |->
        [kind |-> "mix", claim |-> "main", op |-> present[i],
         value |-> self[present[i]].log_size]]

\* LuminairClaim::log_sizes: the log-sizes of the main tree's segments.
LuminairClaim_log_sizes(self) ==
  LET present == Present(LogSizesOrder, self)
  IN [i \in 1..Len(present) |->
        [op |-> present[i], log_size |-> self[present[i]].log_size]]

\* LuminairInteractionClaim::mix_into: what the channel absorbs, in order.
LuminairInteractionClaim_mix_into(self) ==
  LET present == Present(InteractionMixOrder, self)
  IN [i \in 1..Len(present) |->
        [kind |-> "mix", claim |-> "interaction", op |-> present[i],
         value |-> self[present[i]].claimed_sum]]

\* ------------------------------------------------------------------ state
VARIABLES
  pie,                    \* LuminairPie: trace_tables
  settings,               \* CircuitSettings: lookups
  pc,                     \* position in prove
  idx,                    \* position of the running loop or if-let chain
  channel,                \* Fiat-Shamir transcript: commits, mixes, draws
  commitment_scheme,      \* the committed trees, in commit order
  tree_builder,           \* segments extended into the current tree builder
  main_claim,             \* LuminairClaim
  interaction_claim_gen,  \* LuminairInteractionClaimGenerator
  interaction_elements,   \* LuminairInteractionElements, None before the draw
  interaction_claim,      \* LuminairInteractionClaim
  result,                 \* what prove returned: None while running
  first_run,              \* what an earlier run of prove on the same input left
  kernel,                 \* the component function under study and its input
  kernel_state            \* its progress and output

\* The variables that a run of prove leaves alone.
aux_vars == << first_run, kernel, kernel_state >>

vars ==
  << pie, settings, pc, idx, channel, commitment_scheme, tree_builder,
     main_claim, interaction_claim_gen, interaction_elements,
     interaction_claim, result, first_run, kernel, kernel_state >>

\* TreeBuilder::commit: the tree joins the commitment scheme and its root is
\* mixed into the channel.
CommitEvent(tree, segments) == [kind |-> "commit", tree |-> tree, root |-> segments]

\* The log-size of a committed segment: its columns hold 2^log_size values.
SegmentLogSize(seg) == ILog2(Len(seg.evals) * N_LANES)

\* LuminairInteractionElements::draw: NodeElements and one LookupElements
\* set per LUT, each named by its relation and the transcript position of
\* the draw.
DrawElements(ch) ==
  [node_elements |-> [relation |-> "node", drawn_at |-> Len(ch) + 1],
   lookup_elements |->
     [sin |-> [relation |-> "sin_lut", drawn_at |-> Len(ch) + 1],
      exp2 |-> [relation |-> "exp2_lut", drawn_at |-> Len(ch) + 1]]]

\* ----------------------------------------------------------------- inputs
\* Rows of a lookup table: row i has multiplicity (i + s) mod (MaxMult + 1).
LookupRows(n, s) == [i \in 1..n |-> [multiplicity |-> (i + s) % (MaxMult + 1)]]

\* Rows of an exp2 table of one node: row i reads LUT row refs[i]; in_mult
\* and out_mult are the node's multiplicities (zero for an input that is an
\* initializer and for an output that is final).
Exp2Rows(refs, in_mult, out_mult) ==
  [i \in 1..Len(refs) |->
     [node_id |-> 1, input_id |-> 0, idx |-> i - 1,
      is_last_idx |-> IF i = Len(refs) THEN 1 ELSE 0,
      next_node_id |-> IF i = Len(refs) THEN 0 ELSE 1,
      next_input_id |-> 0,
      next_idx |-> IF i = Len(refs) THEN 0 ELSE i,
      input_val |-> LutValue(0, refs[i]), out_val |-> LutValue(1, refs[i]),
      rem_val |-> 0, scale |-> 2 ^ DEFAULT_FP_SCALE,
      input_mult |-> in_mult, out_mult |-> out_mult]]

\* Rows of the operators whose schema the model leaves opaque.
OpaqueRows(n) == [i \in 1..n |-> [v |-> 0]]

RowsOf(op, n) ==
  IF op = "exp2_lookup" THEN LookupRows(n, 0)
  ELSE IF op = "exp2" THEN Exp2Rows([i \in 1..n |-> (i - 1) % 2], M31_P - 1, 1)
  ELSE OpaqueRows(n)

\* Row counts of the tables of a multi-table PIE: empty, one lane width after
\* padding, two lane widths after padding.
RowChoices == {0, 1, N_LANES + 1}

SeqsUpTo(S, n) == UNION { [1..k -> S] : k \in 0..n }

\* PIEs of any operator mix, in any order, with repeated operators.
MixedPies ==
  { [trace_tables |-> [i \in 1..Len(t) |->
                         [op |-> t[i][1], rows |-> RowsOf(t[i][1], t[i][2])]]] :
      t \in SeqsUpTo(OpSet \X RowChoices, MaxTables) }

\* PIEs of one exp2_lookup table of every row count up to MaxRows.
LookupPies ==
  { [trace_tables |-> << [op |-> "exp2_lookup", rows |-> LookupRows(n, s)] >>] :
      n \in 0..MaxRows, s \in 0..MaxMult }

\* PIEs of one exp2 table and its exp2_lookup table.
Exp2Pies ==
  { [trace_tables |->
       << [op |-> "exp2", rows |-> Exp2Rows(refs, mults[1], mults[2])],
          [op |-> "exp2_lookup",
           rows |-> [i \in 1..Len(m) |-> [multiplicity |-> m[i]]]] >>] :
      refs \in [1..2 -> 0..1], m \in [1..2 -> 0..MaxMult],
      mults \in { << 0, 0 >>, << M31_P - 1, 1 >> } }

\* Settings: no Exp2 LUT, or one of log-size LOG_N_LANES or LOG_N_LANES + 1.
SettingsSet ==
  { [lookups |-> [exp2 |-> None]] } \cup
  { [lookups |-> [exp2 |-> [log_size |-> k]]] : k \in LOG_N_LANES..(LOG_N_LANES + 1) }

\* The settings a graph of these row counts comes with: an Exp2 LUT as large
\* as the largest padded table.
MixedSettings == [lookups |-> [exp2 |-> [log_size |-> LOG_N_LANES + 1]]]

Init ==
  /\ \/ pie \in MixedPies /\ settings = MixedSettings
     \/ pie \in LookupPies \cup Exp2Pies /\ settings \in SettingsSet
  /\ pc = "setup"
  /\ idx = 0
  /\ channel = << >>
  /\ commitment_scheme = << >>
  /\ tree_builder = << >>
  /\ main_claim = DefaultContainer
  /\ interaction_claim_gen = DefaultContainer
  /\ interaction_elements = None
  /\ interaction_claim = DefaultContainer
  /\ result = None
  /\ first_run = None
  /\ kernel = None
  /\ kernel_state = None

\* --------------------------------------------------------------- prove
\* PreProcessedTrace::new(lookups_to_preprocessed_column(&settings.lookups)).
preprocessed_trace == lookups_to_preprocessed_column(settings.lookups)

\* Interaction phase 0: the preprocessed columns are extended into a tree
\* builder and committed.
PreprocessedTrace ==
  /\ pc = "setup"
  /\ LET segments == [i \in 1..Len(preprocessed_trace) |->
                        [op |-> "preprocessed",
                         evals |-> gen_column(preprocessed_trace[i])]]
     IN /\ commitment_scheme' = Append(commitment_scheme, segments)
        /\ channel' = Append(channel, CommitEvent(0, segments))
  /\ pc' = "main_trace"
  /\ idx' = 1
  /\ UNCHANGED << pie, settings, tree_builder, main_claim,
                  interaction_claim_gen, interaction_elements,
                  interaction_claim, result >>
  /\ UNCHANGED aux_vars

\* The main loop swallowing a table's error: the table is skipped and the
\* loop goes on.
MainTraceTable_skips_error ==
  /\ pc = "main_trace"
  /\ idx <= Len(pie.trace_tables)
  /\ LET table == pie.trace_tables[idx]
         res == WriteTraceOf(table)
     IN IF res.ok
        THEN /\ tree_builder' =
                  Append(tree_builder, [op |-> table.op, evals |-> res.evals])
             /\ main_claim' = [main_claim EXCEPT ![table.op] = res.claim]
             /\ interaction_claim_gen' =
                  [interaction_claim_gen EXCEPT ![table.op] = res.gen]
        ELSE UNCHANGED << tree_builder, main_claim, interaction_claim_gen >>
  /\ idx' = idx + 1
  /\ UNCHANGED << pie, settings, pc, channel, commitment_scheme,
                  interaction_elements, interaction_claim, result >>
  /\ UNCHANGED aux_vars

\* Interaction phase 1, one turn of the loop over pie.trace_tables: the
\* table's write_trace, with `?` returning its error from prove.
MainTraceTable ==
  /\ pc = "main_trace"
  /\ idx <= Len(pie.trace_tables)
  /\ LET table == pie.trace_tables[idx]
         res == WriteTraceOf(table)
     IN IF res.ok
        THEN /\ tree_builder' =
                  Append(tree_builder, [op |-> table.op, evals |-> res.evals])
             /\ main_claim' = [main_claim EXCEPT ![table.op] = res.claim]
             /\ interaction_claim_gen' =
                  [interaction_claim_gen EXCEPT ![table.op] = res.gen]
             /\ idx' = idx + 1
             /\ UNCHANGED << pc, result >>
        ELSE /\ pc' = "returned"
             /\ result' = [ok |-> FALSE, err |-> res.err]
             /\ UNCHANGED << tree_builder, main_claim, interaction_claim_gen, idx >>
  /\ UNCHANGED << pie, settings, channel, commitment_scheme,
                  interaction_elements, interaction_claim >>
  /\ UNCHANGED aux_vars

\* The elements drawn before the main claim is mixed and the main tree
\* committed.
MixMainClaim_draws_first ==
  /\ pc = "main_trace"
  /\ idx > Len(pie.trace_tables)
  /\ interaction_elements' = DrawElements(channel)
  /\ channel' = Append(channel, [kind |-> "draw"]) \o LuminairClaim_mix_into(main_claim)
  /\ pc' = "commit_main"
  /\ UNCHANGED << pie, settings, idx, commitment_scheme, tree_builder,
                  main_claim, interaction_claim_gen, interaction_claim, result >>
  /\ UNCHANGED aux_vars

\* main_claim.mix_into(channel), once the loop is over.
MixMainClaim ==
  /\ pc = "main_trace"
  /\ idx > Len(pie.trace_tables)
  /\ channel' = channel \o LuminairClaim_mix_into(main_claim)
  /\ pc' = "commit_main"
  /\ UNCHANGED << pie, settings, idx, commitment_scheme, tree_builder,
                  main_claim, interaction_claim_gen, interaction_elements,
                  interaction_claim, result >>
  /\ UNCHANGED aux_vars

\* The main tree committed without its root reaching the channel.
CommitMain_unmixed ==
  /\ pc = "commit_main"
  /\ commitment_scheme' = Append(commitment_scheme, tree_builder)
  /\ pc' = "draw"
  /\ UNCHANGED << pie, settings, idx, channel, tree_builder, main_claim,
                  interaction_claim_gen, interaction_elements,
                  interaction_claim, result >>
  /\ UNCHANGED aux_vars

\* tree_builder.commit(channel) of the main trace.
CommitMain ==
  /\ pc = "commit_main"
  /\ commitment_scheme' = Append(commitment_scheme, tree_builder)
  /\ channel' = Append(channel, CommitEvent(1, tree_builder))
  /\ pc' = "draw"
  /\ UNCHANGED << pie, settings, idx, tree_builder, main_claim,
                  interaction_claim_gen, interaction_elements,
                  interaction_claim, result >>
  /\ UNCHANGED aux_vars

\* LuminairInteractionElements::draw(channel) and the fresh tree builder of
\* the interaction phase.
\* The draw taking its randomness from outside the channel.
DrawInteractionElements_unseeded ==
  /\ pc = "draw"
  /\ interaction_elements' \in { DrawElements(channel), DrawElements(<< >>) }
  /\ channel' = Append(channel, [kind |-> "draw"])
  /\ tree_builder' = << >>
  /\ pc' = "interaction_trace"
  /\ idx' = 1
  /\ UNCHANGED << pie, settings, commitment_scheme, main_claim,
                  interaction_claim_gen, interaction_claim, result >>
  /\ UNCHANGED aux_vars

DrawInteractionElements ==
  /\ pc = "draw"
  /\ interaction_elements' = DrawElements(channel)
  /\ channel' = Append(channel, [kind |-> "draw"])
  /\ tree_builder' = << >>
  /\ pc' = "interaction_trace"
  /\ idx' = 1
  /\ UNCHANGED << pie, settings, commitment_scheme, main_claim,
                  interaction_claim_gen, interaction_claim, result >>
  /\ UNCHANGED aux_vars

\* The elements each operator's write_interaction_trace is called with.
ElementsFor(op) ==
  IF op \in {"sin"} THEN
    << interaction_elements.node_elements, interaction_elements.lookup_elements.sin >>
  ELSE IF op = "sin_lookup" THEN << interaction_elements.lookup_elements.sin >>
  ELSE IF op = "exp2" THEN
    << interaction_elements.node_elements, interaction_elements.lookup_elements.exp2 >>
  ELSE IF op = "exp2_lookup" THEN << interaction_elements.lookup_elements.exp2 >>
  ELSE << interaction_elements.node_elements >>

\* The call of one operator's write_interaction_trace in prove.
InteractionTraceOf(op, claim_gen) ==
  IF op = "exp2_lookup" THEN
    LET exp2_luts == sort_by_col_index(columns_of(preprocessed_trace, "exp2"))
        res == write_interaction_trace(claim_gen,
                                       interaction_elements.lookup_elements.exp2,
                                       exp2_luts)
    IN IF res.ok
       THEN [ok |-> TRUE, trace |-> Flatten(res.trace), claim |-> res.claim]
       ELSE res
  ELSE IF op = "exp2" THEN
    LET flat == Exp2Fractions(claim_gen.lookup_data,
                              interaction_elements.node_elements)
    IN [ok |-> TRUE, trace |-> flat, claim |-> [claimed_sum |-> LogupSum(flat)]]
  ELSE [ok |-> TRUE, trace |-> << >>, claim |-> [claimed_sum |-> ZeroSum]]

\* The first field at or after position i of the interaction if-let chain
\* whose generator is Some; Len + 1 when there is none.
RECURSIVE NextSome(_)
NextSome(i) ==
  IF i > Len(InteractionOrder) THEN i
  ELSE IF interaction_claim_gen[InteractionOrder[i]] # None THEN i
  ELSE NextSome(i + 1)

\* Interaction phase 2, the next if-let of the chain that finds Some: the
\* generator is moved out and its write_interaction_trace runs.
InteractionTrace ==
  /\ pc = "interaction_trace"
  /\ NextSome(idx) <= Len(InteractionOrder)
  /\ LET op == InteractionOrder[NextSome(idx)]
         res == InteractionTraceOf(op, interaction_claim_gen[op])
     IN IF res.ok
        THEN /\ tree_builder' =
                  Append(tree_builder,
                         [op |-> op,
                          log_size |-> interaction_claim_gen[op].log_size,
                          elements |-> ElementsFor(op),
                          evals |-> res.trace])
             /\ interaction_claim' = [interaction_claim EXCEPT ![op] = res.claim]
             /\ interaction_claim_gen' = [interaction_claim_gen EXCEPT ![op] = None]
             /\ idx' = NextSome(idx) + 1
             /\ UNCHANGED << pc, result >>
        ELSE /\ pc' = "panicked"
             /\ result' = [ok |-> FALSE, panic |-> res.panic]
             /\ UNCHANGED << tree_builder, interaction_claim,
                             interaction_claim_gen, idx >>
  /\ UNCHANGED << pie, settings, channel, commitment_scheme, main_claim,
                  interaction_elements >>
  /\ UNCHANGED aux_vars

\* interaction_claim.mix_into(channel), once the chain is over.
MixInteractionClaim ==
  /\ pc = "interaction_trace"
  /\ NextSome(idx) > Len(InteractionOrder)
  /\ channel' = channel \o LuminairInteractionClaim_mix_into(interaction_claim)
  /\ pc' = "commit_interaction"
  /\ UNCHANGED << pie, settings, idx, commitment_scheme, tree_builder,
                  main_claim, interaction_claim_gen, interaction_elements,
                  interaction_claim, result >>
  /\ UNCHANGED aux_vars

\* tree_builder.commit(channel) of the interaction trace.
CommitInteraction ==
  /\ pc = "commit_interaction"
  /\ commitment_scheme' = Append(commitment_scheme, tree_builder)
  /\ channel' = Append(channel, CommitEvent(2, tree_builder))
  /\ pc' = "proof_generation"
  /\ UNCHANGED << pie, settings, idx, tree_builder, main_claim,
                  interaction_claim_gen, interaction_elements,
                  interaction_claim, result >>
  /\ UNCHANGED aux_vars

\* The outcomes of the STARK prover: a function of the transcript and the
\* committed trees, so a run that repeats an earlier run's transcript and
\* trees gets that run's outcome.
StarkOutcomes ==
  IF /\ first_run # None
     /\ first_run.pc = "returned"
     /\ first_run.channel = Append(channel, [kind |-> "stark_prove"])
     /\ first_run.commitment_scheme = commitment_scheme
  THEN { first_run.result.ok }
  ELSE BOOLEAN

\* prover::prove(&components, channel, commitment_scheme)?: the STARK prover
\* runs once; its error is returned, its proof is wrapped in LuminairProof.
ProofGeneration ==
  /\ pc = "proof_generation"
  /\ \E stark_ok \in StarkOutcomes :
       /\ channel' = Append(channel, [kind |-> "stark_prove"])
       /\ result' =
            IF stark_ok
            THEN [ok |-> TRUE,
                  proof |-> [claim |-> main_claim,
                             interaction_claim |-> interaction_claim,
                             proof |-> commitment_scheme]]
            ELSE [ok |-> FALSE, err |-> "ProvingError"]
  /\ pc' = "returned"
  /\ UNCHANGED << pie, settings, idx, commitment_scheme, tree_builder,
                  main_claim, interaction_claim_gen, interaction_elements,
                  interaction_claim >>
  /\ UNCHANGED aux_vars

Next ==
  \/ PreprocessedTrace
  \/ MainTraceTable
  \/ MixMainClaim
  \/ CommitMain
  \/ DrawInteractionElements
  \/ InteractionTrace
  \/ MixInteractionClaim
  \/ CommitInteraction
  \/ ProofGeneration

Spec == Init /\ [][Next]_vars

\* A second call of prove on the same PIE and settings, once the first has
\* ended: what the first call left is recorded and prove starts afresh.
Rerun ==
  /\ pc \in { "returned", "panicked" }
  /\ first_run = None
  /\ first_run' = [pc |-> pc, channel |-> channel,
                   commitment_scheme |-> commitment_scheme,
                   main_claim |-> main_claim,
                   interaction_elements |-> interaction_elements,
                   interaction_claim |-> interaction_claim,
                   result |-> result]
  /\ pc' = "setup"
  /\ idx' = 0
  /\ channel' = << >>
  /\ commitment_scheme' = << >>
  /\ tree_builder' = << >>
  /\ main_claim' = DefaultContainer
  /\ interaction_claim_gen' = DefaultContainer
  /\ interaction_elements' = None
  /\ interaction_claim' = DefaultContainer
  /\ result' = None
  /\ UNCHANGED << pie, settings, kernel, kernel_state >>

\* The inputs of the two-run study: the PIEs of Init, the mixed ones with
\* fewer than MaxTables tables.
TwoRunsInit ==
  /\ Init
  /\ pie \in MixedPies => Len(pie.trace_tables) < MaxTables

TwoRunsNext == Next \/ Rerun

\* Two calls of prove, one after the other, on one PIE and settings.
TwoRuns == TwoRunsInit /\ [][TwoRunsNext]_vars

\* ================================================================ claims

\* The turn of the main loop that is about to run handles an exp2_lookup
\* table with no rows.
EmptyLookupTurn ==
  /\ pc = "main_trace"
  /\ idx <= Len(pie.trace_tables)
  /\ pie.trace_tables[idx].op = "exp2_lookup"
  /\ Len(pie.trace_tables[idx].rows) = 0

\* C2: write_trace on an exp2_lookup table with zero rows returns EmptyTrace,
\* extends the tree builder by nothing and produces neither a claim nor an
\* interaction generator.
C2_EmptyTrace ==
  [][ EmptyLookupTurn =>
        /\ result' = [ok |-> FALSE, err |-> "EmptyTrace"]
        /\ tree_builder' = tree_builder
        /\ main_claim' = main_claim
        /\ interaction_claim_gen' = interaction_claim_gen ]_vars

\* An empty exp2_lookup table, standing alone in the PIE, has been refused.
C2_Witness ==
  /\ pc = "returned"
  /\ result = [ok |-> FALSE, err |-> "EmptyTrace"]
  /\ idx = 1
  /\ pie.trace_tables[1].op = "exp2_lookup"
  /\ Len(pie.trace_tables[1].rows) = 0
  /\ tree_builder = << >>
  /\ main_claim["exp2_lookup"] = None

IsPowerOfTwo(x) == \E k \in 0..30 : x = 2 ^ k

\* The last table among the first k of the PIE that is an exp2_lookup table
\* (0 when there is none).
LastLookupTable(k) ==
  LET S == { i \in 1..k : pie.trace_tables[i].op = "exp2_lookup" }
  IN IF S = {} THEN 0 ELSE CHOOSE i \in S : \A j \in S : j <= i

\* C3: while the main trace is built, the segment written for an exp2_lookup
\* table of n >= 1 rows holds size / N_LANES packed rows, where size is the
\* smallest power of two that is >= n and >= N_LANES; the stored claim and
\* interaction generator of the last such table carry log_size = log2(size),
\* and the generator holds size / N_LANES packed rows.
C3_PaddedSize ==
  pc \in {"main_trace", "commit_main"} =>
    /\ \A i \in 1..Len(tree_builder) :
         pie.trace_tables[i].op = "exp2_lookup" =>
           LET n == Len(pie.trace_tables[i].rows)
               size == Len(tree_builder[i].evals) * N_LANES
           IN /\ n >= 1
              /\ IsPowerOfTwo(size)
              /\ size >= n
              /\ size >= N_LANES
              /\ size = Max(NextPowerOfTwo(n), N_LANES)
              /\ \A q \in 1..(size - 1) :
                   IsPowerOfTwo(q) => (q < n \/ q < N_LANES)
    /\ LET last == LastLookupTable(Len(tree_builder)) IN
       last > 0 =>
         LET size == Len(tree_builder[last].evals) * N_LANES
             claim == main_claim["exp2_lookup"]
             gen == interaction_claim_gen["exp2_lookup"]
         IN /\ claim # None /\ gen # None
            /\ 2 ^ claim.log_size = size
            /\ gen.log_size = claim.log_size
            /\ Len(gen.lookup_data.multiplicities) * N_LANES = size

\* A table of 2 * N_LANES rows was written as two packed rows with log-size
\* LOG_N_LANES + 1.
C3_Witness ==
  /\ pc = "commit_main"
  /\ Len(tree_builder) = 1
  /\ pie.trace_tables[1].op = "exp2_lookup"
  /\ Len(pie.trace_tables[1].rows) = 2 * N_LANES
  /\ Len(tree_builder[1].evals) = 2
  /\ main_claim["exp2_lookup"] = [log_size |-> LOG_N_LANES + 1]

\* ------------------------------------------------------------ transcript
KindOf(e) ==
  IF e.kind = "mix"
  THEN (IF e.claim = "main" THEN "mix_main" ELSE "mix_interaction")
  ELSE e.kind

Kinds(ch) == [i \in 1..Len(ch) |-> KindOf(ch[i])]

Repeat(x, n) == [i \in 1..n |-> x]

NumPresent(container) == Len(Present(Ops, container))

OpsOf(seq) == [i \in 1..Len(seq) |-> seq[i].op]

\* The operators of the mixes of one claim that the channel absorbed.
MixedOps(which) ==
  OpsOf(SelectSeq(channel, LAMBDA e : e.kind = "mix" /\ e.claim = which))

\* The transcript up to the draw of the interaction elements.
TranscriptToDraw(a) ==
  << "commit" >> \o Repeat("mix_main", a) \o << "commit", "draw" >>

\* The transcript of a whole run with a main and b interaction claims.
TranscriptOfRun(a, b) ==
  TranscriptToDraw(a) \o Repeat("mix_interaction", b)
    \o << "commit", "stark_prove" >>

\* A step in which a write_trace extends the main tree builder.
MainWriteStep ==
  /\ Len(tree_builder') = Len(tree_builder) + 1
  /\ interaction_claim' = interaction_claim

\* A step in which a write_interaction_trace returns its claim.
InteractionWriteStep == interaction_claim' # interaction_claim

\* A step in which prove returns a proof.
ProofStep == result = None /\ result' # None /\ result'.ok

\* C4: every successful run of prove is strictly phased.  Each write_trace
\* runs when the channel holds the preprocessed commit alone; each
\* write_interaction_trace runs when the channel holds that commit, the mixes
\* of the main claim, the main commit and the draw, and nothing else; the
\* returned proof closes a transcript of exactly: commit, main mixes, commit,
\* draw, interaction mixes, commit, one STARK prover call, with three trees
\* committed, every table written and every present operator's interaction
\* trace written.
C4_StrictPhases ==
  [][ /\ MainWriteStep =>
           /\ Kinds(channel) = << "commit" >>
           /\ Len(commitment_scheme) = 1
      /\ InteractionWriteStep =>
           /\ Kinds(channel) = TranscriptToDraw(NumPresent(main_claim))
           /\ Len(commitment_scheme) = 2
      /\ ProofStep =>
           /\ Kinds(channel') =
                TranscriptOfRun(NumPresent(main_claim), NumPresent(interaction_claim))
           /\ Len(commitment_scheme') = 3
           /\ Cardinality({ i \in 1..Len(channel') : channel'[i].kind = "commit" }) = 3
           /\ Cardinality({ i \in 1..Len(channel') : channel'[i].kind = "stark_prove" }) = 1
           /\ Len(commitment_scheme'[2]) = Len(pie.trace_tables)
           /\ Len(commitment_scheme'[3]) = NumPresent(main_claim) ]_vars

\* A proof was returned for a PIE of two tables of different operators.
C4_Witness ==
  /\ pc = "returned"
  /\ result.ok
  /\ Len(commitment_scheme) = 3
  /\ Len(commitment_scheme[2]) = 2
  /\ Len(commitment_scheme[3]) = 2
  /\ Len(channel) = 9

\* Positions of the transcript.
DrawPositions == { i \in 1..Len(channel) : channel[i].kind = "draw" }

MainCommitPositions ==
  { i \in 1..Len(channel) : channel[i].kind = "commit" /\ channel[i].tree = 1 }

MainMixPositions ==
  { i \in 1..Len(channel) : channel[i].kind = "mix" /\ channel[i].claim = "main" }

\* The segments of the interaction tree, under construction or committed.
InteractionSegments ==
  IF Len(commitment_scheme) >= 3 THEN commitment_scheme[3]
  ELSE IF pc \in {"interaction_trace", "commit_interaction", "panicked"}
       THEN tree_builder
  ELSE << >>

\* Every element set of the drawn interaction elements.
DrawnElements ==
  { interaction_elements.node_elements,
    interaction_elements.lookup_elements.sin,
    interaction_elements.lookup_elements.exp2 }

\* C5: the interaction elements are drawn at most once, and once in every
\* returned proof; the draw comes after the main commit, which comes after
\* every mix of the main claim, and the whole main claim has been mixed; every
\* fraction of every interaction segment, and every element set handed to a
\* write_interaction_trace, is one drawn at that position.
C5_ChallengesAfterMainCommit ==
  /\ Cardinality(DrawPositions) <= 1
  /\ (interaction_elements = None) <=> (DrawPositions = {})
  /\ (pc = "returned" /\ result.ok) => Cardinality(DrawPositions) = 1
  /\ interaction_elements # None =>
       \A d \in DrawPositions :
         /\ \A e \in DrawnElements : e.drawn_at = d
         /\ \E c \in MainCommitPositions :
              /\ c < d
              /\ \A m \in MainMixPositions : m < c
         /\ Cardinality(MainMixPositions) = NumPresent(main_claim)
  /\ \A i \in 1..Len(InteractionSegments) :
       LET seg == InteractionSegments[i] IN
       /\ \A j \in 1..Len(seg.elements) :
            /\ seg.elements[j] \in DrawnElements
            /\ seg.elements[j].drawn_at \in DrawPositions
       /\ \A k \in 1..Len(seg.evals) :
            /\ seg.evals[k].denom.elements \in DrawnElements
            /\ \E c \in MainCommitPositions :
                 c < seg.evals[k].denom.elements.drawn_at

\* A proof was returned whose interaction tree holds the fractions of an
\* exp2_lookup component.
C5_Witness ==
  /\ pc = "returned"
  /\ result.ok
  /\ \E i \in 1..Len(commitment_scheme[3]) :
       /\ commitment_scheme[3][i].op = "exp2_lookup"
       /\ Len(commitment_scheme[3][i].evals) >= N_LANES
       /\ commitment_scheme[3][i].evals[1].denom.elements.drawn_at \in DrawPositions

\* The operators that have at least one table in the PIE, in the canonical
\* order of the LuminairClaim fields.
OpsInPie ==
  SelectSeq(Ops, LAMBDA o :
    \E i \in 1..Len(pie.trace_tables) : pie.trace_tables[i].op = o)

\* C6: the present operators are walked in one and the same order, the
\* canonical one restricted to them, by LuminairClaim::mix_into, by
\* LuminairClaim::log_sizes, by the interaction phase of prove and by
\* LuminairInteractionClaim::mix_into; in a returned proof the main mixes of
\* the channel, the log-sizes, the segments of the interaction tree and the
\* interaction mixes of the channel all list the operators of the PIE in
\* canonical order.
C6_CanonicalOrder ==
  /\ OpsOf(LuminairClaim_mix_into(main_claim)) = Present(Ops, main_claim)
  /\ OpsOf(LuminairClaim_log_sizes(main_claim)) = Present(Ops, main_claim)
  /\ OpsOf(LuminairInteractionClaim_mix_into(interaction_claim))
       = Present(Ops, interaction_claim)
  /\ OpsOf(InteractionSegments) = Present(Ops, interaction_claim)
  /\ (pc = "returned" /\ result.ok) =>
       /\ MixedOps("main") = OpsInPie
       /\ OpsOf(LuminairClaim_log_sizes(result.proof.claim)) = OpsInPie
       /\ OpsOf(commitment_scheme[3]) = OpsInPie
       /\ MixedOps("interaction") = OpsInPie

\* A proof was returned for a PIE that lists mul before add.
C6_Witness ==
  /\ pc = "returned"
  /\ result.ok
  /\ Len(pie.trace_tables) = 2
  /\ pie.trace_tables[1].op = "mul"
  /\ pie.trace_tables[2].op = "add"
  /\ MixedOps("interaction") = << "add", "mul" >>

\* No operator has two tables in the PIE.
DistinctOperators ==
  \A i, j \in 1..Len(pie.trace_tables) :
    pie.trace_tables[i].op = pie.trace_tables[j].op => i = j

\* C7: in a returned proof of a PIE of distinct operators, listed in any
\* order, the segments of the main tree are in the canonical operator order:
\* the order of LuminairClaim::log_sizes and of the interaction tree.
C7_MainTreeCanonical ==
  (pc = "returned" /\ result.ok /\ DistinctOperators) =>
    /\ OpsOf(commitment_scheme[2]) = OpsOf(LuminairClaim_log_sizes(main_claim))
    /\ OpsOf(commitment_scheme[2]) = OpsOf(commitment_scheme[3])

\* The turn of the main loop that is about to run handles a table with no
\* rows.
EmptyTurn ==
  /\ pc = "main_trace"
  /\ idx <= Len(pie.trace_tables)
  /\ Len(pie.trace_tables[idx].rows) = 0

\* C8: when a table of the main loop has no rows, that turn makes prove
\* return the error EmptyTrace: the channel still holds the preprocessed
\* commit alone (no main mix, no main commit, no draw, no STARK prover call),
\* only the preprocessed tree is committed, the tree builder holds the
\* segments of the earlier tables only, no interaction claim exists and no
\* proof is returned; and no step of prove ever runs after it has returned
\* (no later table, no retry).
C8_FailFast ==
  [][ /\ result = None
      /\ EmptyTurn =>
           /\ pc' = "returned"
           /\ result' = [ok |-> FALSE, err |-> "EmptyTrace"]
           /\ idx' = idx
           /\ Kinds(channel') = << "commit" >>
           /\ Len(commitment_scheme') = 1
           /\ tree_builder' = tree_builder
           /\ Len(tree_builder') = idx - 1
           /\ main_claim' = main_claim
           /\ interaction_elements' = None
           /\ interaction_claim' = DefaultContainer ]_vars

\* prove returned EmptyTrace for the first table although a second table
\* with rows was waiting.
C8_Witness ==
  /\ pc = "returned"
  /\ result = [ok |-> FALSE, err |-> "EmptyTrace"]
  /\ idx = 1
  /\ Len(pie.trace_tables) = 2
  /\ Len(pie.trace_tables[2].rows) > 0
  /\ Len(commitment_scheme) = 1

\* The PIE holds an exp2_lookup table.
HasTable(op) == \E i \in 1..Len(pie.trace_tables) : pie.trace_tables[i].op = op

\* C9: when the PIE holds an exp2_lookup table and the settings supply fewer
\* than two Exp2 LUT columns, prove does not abort: it ends by returning an
\* error value, with no interaction tree committed.
C9_ErrorNotAbort ==
  (HasTable("exp2_lookup") /\ Len(columns_of(preprocessed_trace, "exp2")) < 2) =>
    /\ pc # "panicked"
    /\ pc = "returned" => (~result.ok /\ Len(commitment_scheme) <= 2)

\* ------------------------------------------------------------ LogUp balance
\* Number of LUT rows the settings declare for Exp2 (0 without the LUT).
LutRows ==
  IF settings.lookups.exp2 = None THEN 0 ELSE 2 ^ settings.lookups.exp2.log_size

TableOf(op) ==
  pie.trace_tables[CHOOSE i \in 1..Len(pie.trace_tables) : pie.trace_tables[i].op = op]

\* Number of rows of the exp2 table that read LUT row j.
Uses(j) ==
  IF ~HasTable("exp2") THEN 0
  ELSE LET rows == TableOf("exp2").rows
       IN Cardinality({ i \in 1..Len(rows) :
                          /\ rows[i].input_val = LutValue(0, j)
                          /\ rows[i].out_val = LutValue(1, j) })

\* Multiplicity the exp2_lookup table holds for LUT row j.
Multiplicity(j) ==
  IF ~HasTable("exp2_lookup") THEN 0
  ELSE LET rows == TableOf("exp2_lookup").rows
       IN IF j + 1 <= Len(rows) THEN rows[j + 1].multiplicity ELSE 0

Balanced == \A j \in 0..(LutRows - 1) : Multiplicity(j) = Uses(j)

NegSum(sum) == [d \in DOMAIN sum |-> NegM31(sum[d])]

RECURSIVE SumOver(_, _)
\* The sum of the claimed sums of the listed operators.
SumOver(ops, claims) ==
  IF ops = << >> THEN ZeroSum
  ELSE AddSums(claims[Head(ops)].claimed_sum, SumOver(Tail(ops), claims))

TotalClaimedSum(claims) == SumOver(Present(Ops, claims), claims)

\* The sum of the fractions the operator components (all but the lookup
\* components) add against the Exp2 LUT relation.
OperatorLutSum(claims) ==
  RelationPart(
    SumOver(SelectSeq(Present(Ops, claims),
                      LAMBDA o : o \notin {"sin_lookup", "exp2_lookup"}),
            claims),
    "exp2_lut")

\* C10: in a returned proof with an exp2_lookup table (no operator listed
\* twice), if every LUT row's multiplicity equals the number of exp2 rows
\* that read it, the lookup component's claimed sum is the negation of the
\* sum of the operator components' fractions over the Exp2 LUT relation and
\* the claimed sums add to zero over that relation; if some multiplicity
\* differs, they do not add to zero.
C10_LogUpBalance ==
  (pc = "returned" /\ result.ok /\ DistinctOperators /\ HasTable("exp2_lookup")) =>
    LET claims == result.proof.interaction_claim
        total == RelationPart(TotalClaimedSum(claims), "exp2_lut")
    IN /\ Balanced =>
            /\ claims["exp2_lookup"].claimed_sum = NegSum(OperatorLutSum(claims))
            /\ total = ZeroSum
       /\ ~Balanced => total # ZeroSum

\* ------------------------------------------------------------ the verifier
\* verify(proof, settings), the mirror of prove: the preprocessed columns are
\* rebuilt from the settings, the three committed trees are read in order
\* with the sizes the claims give, the claims are mixed and the challenges
\* drawn as in prove, and the LogUp total of the interaction claims is zero.
verify(proof, circuit_settings) ==
  LET trees == proof.proof
      columns == lookups_to_preprocessed_column(circuit_settings.lookups)
      rebuilt == [i \in 1..Len(columns) |->
                    [op |-> "preprocessed", evals |-> gen_column(columns[i])]]
      log_sizes == LuminairClaim_log_sizes(proof.claim)
      transcript == << CommitEvent(0, rebuilt) >>
                      \o LuminairClaim_mix_into(proof.claim)
                      \o << CommitEvent(1, trees[2]) >>
      elements == DrawElements(transcript)
      claimed == Present(InteractionOrder, proof.interaction_claim)
  IN IF Len(trees) # 3 \/ trees[1] # rebuilt
     THEN "VerificationFailed: bad commitment"
     ELSE IF \/ Len(trees[2]) # Len(log_sizes)
             \/ \E i \in 1..Len(trees[2]) :
                  \/ trees[2][i].op # log_sizes[i].op
                  \/ SegmentLogSize(trees[2][i]) # log_sizes[i].log_size
             \/ OpsOf(trees[3]) # claimed
             \/ \E i \in 1..Len(trees[3]) :
                  \/ trees[3][i].log_size # proof.claim[trees[3][i].op].log_size
                  \/ \E j \in 1..Len(trees[3][i].elements) :
                       trees[3][i].elements[j].drawn_at
                         # elements.node_elements.drawn_at
     THEN "VerificationFailed: claim mismatch"
     ELSE IF TotalClaimedSum(proof.interaction_claim) # ZeroSum
     THEN "VerificationFailed: unbalanced LogUp"
     ELSE "Ok"

OpIndex(op) == CHOOSE i \in 1..Len(Ops) : Ops[i] = op

\* A valid input: every table has rows, the operators are distinct and listed
\* in the canonical order, an exp2 node reads an initializer and writes a
\* final output (zero node multiplicities), and when an Exp2 operator or
\* lookup table is present the settings declare the Exp2 LUT, both tables
\* are present, the lookup table fits the LUT and its multiplicities count
\* the reads of the exp2 rows.
ValidInput ==
  LET tables == pie.trace_tables
  IN /\ \A i \in 1..Len(tables) : Len(tables[i].rows) > 0
     /\ \A i, j \in 1..Len(tables) :
          i < j => OpIndex(tables[i].op) < OpIndex(tables[j].op)
     /\ \A i \in 1..Len(tables) :
          tables[i].op = "exp2" =>
            \A r \in 1..Len(tables[i].rows) :
              tables[i].rows[r].input_mult = 0 /\ tables[i].rows[r].out_mult = 0
     /\ (HasTable("exp2") \/ HasTable("exp2_lookup")) =>
          /\ HasTable("exp2") /\ HasTable("exp2_lookup")
          /\ settings.lookups.exp2 # None
          /\ Len(TableOf("exp2_lookup").rows) <= LutRows
          /\ Balanced

\* C1: for every valid input, the proof that prove returns is accepted by
\* verify under the same settings.
C1_RoundTrip ==
  (pc = "returned" /\ result.ok /\ ValidInput) =>
    verify(result.proof, settings) = "Ok"

\* The round trip of a valid input without lookups succeeds.
RoundTripOfPlainOperators ==
  (pc = "returned" /\ result.ok /\ ValidInput /\ ~HasTable("exp2")) =>
    verify(result.proof, settings) = "Ok"

MaxLogSize == 3
\* Largest number of packed values of an operand.
MaxOperand == 2

Min(a, b) == IF a <= b THEN a ELSE b

\* PackedBaseField: N_LANES values of M31.
Broadcast(v) == [l \in 1..N_LANES |-> v]
Lanes(values) ==
  [l \in 1..N_LANES |-> IF l <= Len(values) THEN values[l] ELSE 0]
PackedAdd(a, b) == [l \in 1..N_LANES |-> AddM31(a[l], b[l])]

\* Fixed-point encoding of a small integer, and its decoding.
ToFixed(v) == v * 2 ^ DEFAULT_FP_SCALE
FromFixed(x) == x \div 2 ^ DEFAULT_FP_SCALE

\* gen_add_trace writing the left operand into the output column.
gen_add_trace_copies_lhs(log_size, lhs, rhs) ==
  LET trace_size == 2 ^ log_size
      size == Max(Len(lhs), Len(rhs))
  IN IF size > 0 /\ (Len(lhs) = 0 \/ Len(rhs) = 0)
     THEN [ok |-> FALSE, panic |-> "remainder with a divisor of zero"]
     ELSE LET lhs_at(i) == lhs[(i % Len(lhs)) + 1]
              rhs_at(i) == rhs[(i % Len(rhs)) + 1]
              col(which) ==
                [r \in 1..trace_size |->
                   IF r - 1 < size
                   THEN IF which = 0 THEN lhs_at(r - 1)[1]
                        ELSE IF which = 1 THEN rhs_at(r - 1)[1]
                        ELSE lhs_at(r - 1)[1]
                   ELSE 0]
          IN [ok |-> TRUE,
              trace |-> << col(0), col(1), col(2) >>,
              claim |-> [log_size |-> log_size],
              c_data |-> [i \in 1..Min(size, trace_size) |-> lhs_at(i - 1)]]

\* gen_add_trace: three columns of 2^log_size values (lane 0 of the operands
\* and of their sum on the first rows, zero on the others), the claim and
\* the packed sums.  Indexing an empty operand panics.
gen_add_trace(log_size, lhs, rhs) ==
  LET trace_size == 2 ^ log_size
      size == Max(Len(lhs), Len(rhs))
  IN IF size > 0 /\ (Len(lhs) = 0 \/ Len(rhs) = 0)
     THEN [ok |-> FALSE, panic |-> "remainder with a divisor of zero"]
     ELSE LET lhs_at(i) == lhs[(i % Len(lhs)) + 1]
              rhs_at(i) == rhs[(i % Len(rhs)) + 1]
              out_at(i) == PackedAdd(lhs_at(i), rhs_at(i))
              col(which) ==
                [r \in 1..trace_size |->
                   IF r - 1 < size
                   THEN IF which = 0 THEN lhs_at(r - 1)[1]
                        ELSE IF which = 1 THEN rhs_at(r - 1)[1]
                        ELSE out_at(r - 1)[1]
                   ELSE 0]
          IN [ok |-> TRUE,
              trace |-> << col(0), col(1), col(2) >>,
              claim |-> [log_size |-> log_size],
              c_data |-> [i \in 1..Min(size, trace_size) |-> out_at(i - 1)]]

\* The add constraint on one row: lhs_val + rhs_val - out_val.
AddConstraint(lhs_val, rhs_val, out_val) ==
  AddM31(AddM31(lhs_val, rhs_val), NegM31(out_val))

\* The operands of scenario S1, one value per packed row and all values in
\* the lanes of one packed row.
S1Lhs == << 1, 2, 3, 4 >>
S1Rhs == << 10, 20, 30, 40 >>
OnePerRow(values) == [i \in 1..Len(values) |-> Broadcast(ToFixed(values[i]))]
InLanes(values) == << Lanes([i \in 1..Len(values) |-> ToFixed(values[i])]) >>

PackedValues ==
  { Broadcast(0), Broadcast(1), Broadcast(M31_P - 1),
    [l \in 1..N_LANES |-> M31_P - l] }

\* The calls of gen_add_trace: operands of up to MaxOperand packed values,
\* and the operands of scenario S1.
AddCalls ==
  \E k \in 0..MaxLogSize :
    \/ \E l, r \in SeqsUpTo(PackedValues, MaxOperand) :
         kernel = [name |-> "gen_add_trace", log_size |-> k, lhs |-> l, rhs |-> r]
    \/ \E f \in { << OnePerRow(S1Lhs), OnePerRow(S1Rhs) >>,
                   << InLanes(S1Lhs), InLanes(S1Rhs) >> } :
         kernel = [name |-> "gen_add_trace", log_size |-> k,
                   lhs |-> f[1], rhs |-> f[2]]

\* ------------------------------------------------------------ sum_reduce
\* Largest number of rows of a slice.
MaxSlice == 3

RECURSIVE SumM31(_)
\* The sum in M31 of a sequence of values.
SumM31(values) ==
  IF values = << >> THEN 0
  ELSE AddM31(Head(values), SumM31(Tail(values)))

\* The sum_reduce constraints on row r of a trace: is_slice_last is a bit,
\* next_acc = acc + in_val when the row is not slice-last, acc = out_val
\* when it is.
SumReduceConstraints(rows, r) ==
  /\ rows[r].is_slice_last \in { 0, 1 }
  /\ (rows[r].is_slice_last = 0 /\ r < Len(rows)) =>
       rows[r + 1].acc = AddM31(rows[r].acc, rows[r].in_val)
  /\ rows[r].is_slice_last = 1 => rows[r].acc = rows[r].out_val

SumReduceAccepts(rows) == \A r \in 1..Len(rows) : SumReduceConstraints(rows, r)

\* The rows of one slice: the accumulator starts at zero and the last row
\* alone is slice-last.
SliceRows(in_vals, accs, out_val) ==
  [r \in 1..Len(in_vals) |->
     [acc |-> IF r = 1 THEN 0 ELSE accs[r - 1],
      in_val |-> in_vals[r],
      out_val |-> IF r = Len(in_vals) THEN out_val ELSE 0,
      is_slice_last |-> IF r = Len(in_vals) THEN 1 ELSE 0]]

ReduceValues == { 0, 1, 2, M31_P - 1 }

SumReduceCalls ==
  \E n \in 1..MaxSlice :
    \E i \in [1..n -> { 0, 1, M31_P - 1 }],
       a \in [1..(n - 1) -> ReduceValues],
       o \in ReduceValues :
      kernel = [name |-> "sum_reduce", rows |-> SliceRows(i, a, o)]

\* ------------------------------------------------------ exp2 evaluator
\* Largest number of rows of an exp2 table before padding.
MaxExp2Rows == 2

SubM31(a, b) == AddM31(a, NegM31(b))

\* x * 2^k in M31, for x below the modulus: a rotation of its 31 bits.
RotM31(x, k) ==
  IF k = 0 THEN x
  ELSE (x % 2 ^ (31 - k)) * 2 ^ k + x \div 2 ^ (31 - k)

\* The product in M31, from the products of the 11-bit limbs of the
\* factors, every intermediate value below 2^31.
MulM31(a, b) ==
  LET limb(x, i) == (x \div 2 ^ (11 * i)) % 2 ^ 11
      term(i, j) == RotM31(limb(a, i) * limb(b, j), (11 * (i + j)) % 31)
  IN SumM31(<< term(0, 0), term(0, 1), term(0, 2),
               term(1, 0), term(1, 1), term(1, 2),
               term(2, 0), term(2, 1), term(2, 2) >>)

\* The evaluator with the transition constraints not gated by
\* 1 - is_last_idx.
Exp2Constraints_ungated(row) ==
  << MulM31(row.is_last_idx, SubM31(row.is_last_idx, 1)),
     AddM31(SubM31(MulM31(row.out_val, row.input_val),
                   MulM31(row.out_val, row.input_val)),
            row.rem_val),
     SubM31(row.next_node_id, row.node_id),
     SubM31(row.next_input_id, row.input_id),
     SubM31(SubM31(row.next_idx, row.idx), 1) >>

\* The evaluator without the constraint that is_last_idx is a bit.
Exp2Constraints_unchecked_flag(row) ==
  LET not_last == SubM31(1, row.is_last_idx)
  IN << 0,
        AddM31(SubM31(MulM31(row.out_val, row.input_val),
                      MulM31(row.out_val, row.input_val)),
               row.rem_val),
        MulM31(not_last, SubM31(row.next_node_id, row.node_id)),
        MulM31(not_last, SubM31(row.next_input_id, row.input_id)),
        MulM31(not_last, SubM31(SubM31(row.next_idx, row.idx), 1)) >>

\* Exp2Eval::evaluate, the values of its five add_constraint expressions on
\* a row, in the order they are added: the is_last_idx bit, the consistency
\* expression, and the three gated transitions.  All thirteen columns are
\* read from the row itself.
Exp2Constraints(row) ==
  LET not_last == SubM31(1, row.is_last_idx)
  IN << MulM31(row.is_last_idx, SubM31(row.is_last_idx, 1)),
        AddM31(SubM31(MulM31(row.out_val, row.input_val),
                      MulM31(row.out_val, row.input_val)),
               row.rem_val),
        MulM31(not_last, SubM31(row.next_node_id, row.node_id)),
        MulM31(not_last, SubM31(row.next_input_id, row.input_id)),
        MulM31(not_last, SubM31(SubM31(row.next_idx, row.idx), 1)) >>

\* A row is accepted when every constraint evaluates to zero on it.
Exp2Accepts(row) ==
  \A c \in 1..Len(Exp2Constraints(row)) : Exp2Constraints(row)[c] = 0

\* The lookup elements an Exp2Eval holds: NodeElements.
Exp2EvalElements == DrawElements(<< >>).node_elements

Exp2RowSet ==
  [node_id : { 0, 1 }, input_id : { 0, 1 }, idx : { 0, M31_P - 1 },
   is_last_idx : { 0, 1, 2, M31_P - 1 },
   next_node_id : { 0, 1 }, next_input_id : { 0, 1 }, next_idx : { 0, 1 },
   input_val : { 0, 1 }, out_val : { 0, 2 ^ DEFAULT_FP_SCALE },
   rem_val : { 0, 1 }, scale : { 0, 2 ^ DEFAULT_FP_SCALE },
   input_mult : { 0 }, out_mult : { 0, 1 }]

Exp2EvaluateCalls ==
  \E r \in Exp2RowSet : kernel = [name |-> "exp2_evaluate", row |-> r]

\* Exp2 tables of one node, and the sizes they are padded to.
Exp2PaddedCalls ==
  \E n \in 1..MaxExp2Rows :
    \E refs \in [1..n -> 0..1],
       mults \in { << 0, 0 >>, << M31_P - 1, 1 >> },
       size \in { N_LANES, 2 * N_LANES } :
      kernel = [name |-> "exp2_padded",
                rows |-> Exp2Rows(refs, mults[1], mults[2]),
                size |-> size]

\* --------------------------------------------- write_trace_simd, by rows
\* Largest number of lane widths of a lookup table given to write_trace_simd.
MaxLaneWidths == 2

\* The packed rows write_trace hands to write_trace_simd: a table of n rows,
\* padded and packed.
SimdInputs(n, s) ==
  PackValues(Resize(LookupRows(n, s),
                    Max(NextPowerOfTwo(n), N_LANES),
                    PaddingRow("exp2_lookup")))

SimdCalls ==
  \E w \in 0..MaxLaneWidths, s \in 0..MaxMult :
    kernel = [name |-> "write_trace_simd",
              inputs |-> SimdInputs(w * N_LANES + 1, s)]

\* The content of a cell of a column allocated uninitialized.
Uninitialized == [uninitialized |-> TRUE]

\* Every row task writing the first row.
RowOfTask_first(t) == 1

\* The row that the t-th item of the zipped parallel iterators refers to,
\* in the trace, in the lookup data and in the inputs.
RowOfTask(t) == t

\* The number of items of the zip of the three iterators.
NumTasks(state) ==
  Min(Min(Len(state.trace), Len(state.lookup_data.multiplicities)),
      Len(kernel.inputs))


KernelInit ==
  /\ \/ AddCalls
     \/ SumReduceCalls
     \/ Exp2EvaluateCalls
     \/ Exp2PaddedCalls
     \/ SimdCalls
  /\ kernel_state = None
  /\ first_run = None
  /\ pie = [trace_tables |-> << >>]
  /\ settings = [lookups |-> [exp2 |-> None]]
  /\ pc = "idle"
  /\ idx = 0
  /\ channel = << >>
  /\ commitment_scheme = << >>
  /\ tree_builder = << >>
  /\ main_claim = DefaultContainer
  /\ interaction_claim_gen = DefaultContainer
  /\ interaction_elements = None
  /\ interaction_claim = DefaultContainer
  /\ result = None

prove_vars ==
  << pie, settings, pc, idx, channel, commitment_scheme, tree_builder,
     main_claim, interaction_claim_gen, interaction_elements,
     interaction_claim, result, first_run >>

\* A call of gen_add_trace.
GenAddTrace ==
  /\ kernel.name = "gen_add_trace"
  /\ kernel_state = None
  /\ kernel_state' = gen_add_trace(kernel.log_size, kernel.lhs, kernel.rhs)
  /\ UNCHANGED << kernel, prove_vars >>

\* The sum_reduce evaluator on the rows of a slice.
EvaluateSumReduce ==
  /\ kernel.name = "sum_reduce"
  /\ kernel_state = None
  /\ kernel_state' = [accepted |-> SumReduceAccepts(kernel.rows)]
  /\ UNCHANGED << kernel, prove_vars >>

\* Exp2Eval::evaluate on one row: the constraint values and the relation
\* entries it adds.
EvaluateExp2 ==
  /\ kernel.name = "exp2_evaluate"
  /\ kernel_state = None
  /\ kernel_state' =
       [constraints |-> Exp2Constraints(kernel.row),
        relation_entries |-> Exp2RelationEntries(Exp2EvalElements, kernel.row)]
  /\ UNCHANGED << kernel, prove_vars >>

\* Exp2Eval::evaluate on every row of a table padded to a size, and the sum
\* of the LogUp fractions of the padded table.
EvaluateExp2Padded ==
  /\ kernel.name = "exp2_padded"
  /\ kernel_state = None
  /\ LET padded == Resize(kernel.rows, kernel.size, PaddingRow("exp2"))
     IN kernel_state' =
          [trace |-> padded,
           constraints |-> [r \in 1..Len(padded) |-> Exp2Constraints(padded[r])],
           claimed_sum |->
             LogupSum(Exp2Fractions(PackValues(padded), Exp2EvalElements))]
  /\ UNCHANGED << kernel, prove_vars >>

\* write_trace_simd up to the parallel loop: the trace column and the
\* lookup data are allocated, uninitialized; no row task has started.
SimdAllocate ==
  /\ kernel.name = "write_trace_simd"
  /\ kernel_state = None
  /\ LET log_n_packed_rows == ILog2(Len(kernel.inputs))
         log_size == log_n_packed_rows + LOG_N_LANES
         trace == [r \in 1..(2 ^ (log_size - LOG_N_LANES)) |-> Uninitialized]
         multiplicities == [r \in 1..(2 ^ log_n_packed_rows) |-> Uninitialized]
     IN kernel_state' =
          [log_size |-> log_size,
           trace |-> trace,
           lookup_data |-> [multiplicities |-> multiplicities],
           task |-> [t \in 1..Min(Len(trace), Len(kernel.inputs)) |-> "row"],
           trace_writes |-> [r \in 1..Len(trace) |-> 0],
           lookup_writes |-> [r \in 1..Len(multiplicities) |-> 0]]
  /\ UNCHANGED << kernel, prove_vars >>

\* A row task's first statement: *row[Multiplicity] = input.multiplicity.
SimdWriteRow(t) ==
  /\ kernel.name = "write_trace_simd"
  /\ kernel_state # None
  /\ t \in 1..NumTasks(kernel_state)
  /\ kernel_state.task[t] = "row"
  /\ LET r == RowOfTask(t)
     IN kernel_state' =
          [kernel_state EXCEPT
             !.trace[r] = PackedField(kernel.inputs[t], "multiplicity"),
             !.trace_writes[r] = @ + 1,
             !.task[t] = "lookup_data"]
  /\ UNCHANGED << kernel, prove_vars >>

\* A row task's second statement:
\* *lookup_data.multiplicities = input.multiplicity.
SimdWriteLookupData(t) ==
  /\ kernel.name = "write_trace_simd"
  /\ kernel_state # None
  /\ t \in 1..NumTasks(kernel_state)
  /\ kernel_state.task[t] = "lookup_data"
  /\ LET r == RowOfTask(t)
     IN kernel_state' =
          [kernel_state EXCEPT
             !.lookup_data.multiplicities[r] =
               PackedField(kernel.inputs[t], "multiplicity"),
             !.lookup_writes[r] = @ + 1,
             !.task[t] = "done"]
  /\ UNCHANGED << kernel, prove_vars >>

KernelNext ==
  \/ GenAddTrace
  \/ EvaluateSumReduce
  \/ EvaluateExp2
  \/ EvaluateExp2Padded
  \/ SimdAllocate
  \/ \E t \in 1..(2 ^ MaxLaneWidths) : SimdWriteRow(t)
  \/ \E t \in 1..(2 ^ MaxLaneWidths) : SimdWriteLookupData(t)

Kernels == KernelInit /\ [][KernelNext]_vars

\* C12: every row of a trace that gen_add_trace produced, padding rows
\* included, satisfies lhs_val + rhs_val - out_val = 0 in M31, the trace has
\* three columns of 2^log_size rows, and for lhs = [1, 2, 3, 4] and
\* rhs = [10, 20, 30, 40] (either packing) the output values decode to
\* [11, 22, 33, 44].
C12_AddTrace ==
  (kernel.name = "gen_add_trace" /\ kernel_state # None /\ kernel_state.ok) =>
    LET t == kernel_state.trace
        out == kernel_state.c_data
    IN /\ Len(t) = 3
       /\ \A c \in 1..3 : Len(t[c]) = 2 ^ kernel.log_size
       /\ \A r \in 1..(2 ^ kernel.log_size) :
            AddConstraint(t[1][r], t[2][r], t[3][r]) = 0
       /\ (kernel.lhs = OnePerRow(S1Lhs) /\ kernel.rhs = OnePerRow(S1Rhs)
             /\ kernel.log_size >= 2) =>
            /\ [i \in 1..4 |-> FromFixed(out[i][1])] = << 11, 22, 33, 44 >>
            /\ [i \in 1..4 |-> FromFixed(t[3][i])] = << 11, 22, 33, 44 >>
       /\ (kernel.lhs = InLanes(S1Lhs) /\ kernel.rhs = InLanes(S1Rhs)) =>
            [i \in 1..4 |-> FromFixed(out[1][i])] = << 11, 22, 33, 44 >>

\* gen_add_trace produced a trace of 8 rows for the S1 operands, with sums
\* on four rows and padding on the other four.
C12_Witness ==
  /\ kernel.name = "gen_add_trace"
  /\ kernel_state # None /\ kernel_state.ok
  /\ kernel.lhs = OnePerRow(S1Lhs) /\ kernel.rhs = OnePerRow(S1Rhs)
  /\ kernel.log_size = 3
  /\ kernel_state.trace[3][4] = ToFixed(44)
  /\ kernel_state.trace[3][8] = 0

\* C13: in every slice that satisfies the sum_reduce constraints, the
\* out_val of the slice is the sum in M31 of the in_val of all its rows, the
\* slice-last row included.
C13_SumReduce ==
  (kernel.name = "sum_reduce" /\ kernel_state # None /\ kernel_state.accepted) =>
    kernel.rows[Len(kernel.rows)].out_val =
      SumM31([r \in 1..Len(kernel.rows) |-> kernel.rows[r].in_val])

\* ------------------------------------------------- lookup fractions
\* The rows of the last exp2_lookup table of the PIE, whose generator is the
\* one the interaction phase finds.
LookupTableRows ==
  LET tables == pie.trace_tables
      last == CHOOSE i \in 1..Len(tables) :
                /\ tables[i].op = "exp2_lookup"
                /\ \A j \in (i + 1)..Len(tables) : tables[j].op # "exp2_lookup"
  IN tables[last].rows

\* C14: the interaction segment of the exp2 lookup component holds, for
\* every row r of the padded table, the fraction with numerator
\* -multiplicity(r) and denominator combine(elements, lut_input(r),
\* lut_output(r)), where lut_input and lut_output are row r of the Exp2 LUT
\* columns of col_index 0 and 1 and elements are the drawn Exp2 lookup
\* elements; the claimed sum is the sum of these fractions.
C14_LookupFractions ==
  \A s \in 1..Len(InteractionSegments) :
    InteractionSegments[s].op = "exp2_lookup" =>
      LET seg == InteractionSegments[s]
          rows == LookupTableRows
          size == 2 ^ seg.log_size
          mult(r) == IF r <= Len(rows) THEN rows[r].multiplicity ELSE 0
          denom(r) == [elements |-> interaction_elements.lookup_elements.exp2,
                       vals |-> << LutValue(0, r - 1), LutValue(1, r - 1) >>]
          used == { r \in 1..size : mult(r) # 0 }
      IN /\ size = Max(NextPowerOfTwo(Len(rows)), N_LANES)
         /\ Len(seg.evals) = size
         /\ \A r \in 1..size :
              seg.evals[r] = [num |-> NegM31(mult(r)), denom |-> denom(r)]
         /\ interaction_claim["exp2_lookup"] # None
         /\ DOMAIN interaction_claim["exp2_lookup"].claimed_sum
              = { denom(r) : r \in used }
         /\ \A r \in used :
              interaction_claim["exp2_lookup"].claimed_sum[denom(r)]
                = NegM31(mult(r))

\* A proof was returned for a lookup table of more than one packed row with
\* non-zero multiplicities.
C14_Witness ==
  /\ pc = "returned"
  /\ result.ok
  /\ HasTable("exp2_lookup")
  /\ Len(LookupTableRows) = N_LANES + 1
  /\ LookupTableRows[N_LANES + 1].multiplicity # 0
  /\ Cardinality(DOMAIN interaction_claim["exp2_lookup"].claimed_sum) > 2

\* ------------------------------------------------- exp2 evaluator claims
AllZero(values) == \A c \in 1..Len(values) : values[c] = 0

\* C15: on every row the exp2 evaluator accepts, is_last_idx is 0 or 1, and
\* when it is 0 then next_node_id = node_id, next_input_id = input_id and
\* next_idx = idx + 1 (in M31); when is_last_idx is 1 the three transition
\* constraints are zero whatever the next columns hold.
C15_Exp2Transitions ==
  (kernel.name = "exp2_evaluate" /\ kernel_state # None) =>
    LET row == kernel.row
        c == kernel_state.constraints
    IN /\ AllZero(c) =>
            /\ row.is_last_idx \in { 0, 1 }
            /\ row.is_last_idx = 0 =>
                 /\ row.next_node_id = row.node_id
                 /\ row.next_input_id = row.input_id
                 /\ row.next_idx = AddM31(row.idx, 1)
       /\ row.is_last_idx = 1 => (c[3] = 0 /\ c[4] = 0 /\ c[5] = 0)
       /\ (row.is_last_idx = 0 /\ row.next_idx # AddM31(row.idx, 1)) => c[5] # 0

\* An accepted row that is not the last of its node, with idx wrapping
\* around the modulus.
C15_Witness ==
  /\ kernel.name = "exp2_evaluate"
  /\ kernel_state # None
  /\ AllZero(kernel_state.constraints)
  /\ kernel.row.is_last_idx = 0
  /\ kernel.row.idx = M31_P - 1
  /\ kernel.row.next_idx = 0
  /\ kernel.row.node_id = 1

\* C16: the arithmetic consistency constraint of the exp2 evaluator is zero
\* on every assignment of (input_val, out_val, rem_val, scale).
C16_ConsistencyNoOp ==
  (kernel.name = "exp2_evaluate" /\ kernel_state # None) =>
    kernel_state.constraints[2] = 0

\* C17: on every row the exp2 evaluator adds three relation entries:
\* (input_val, input_id) and (out_val, node_id) against the NodeElements
\* relation and (input_val, out_val) against the Exp2 LUT relation.
C17_ThreeLookupTerms ==
  (kernel.name = "exp2_evaluate" /\ kernel_state # None) =>
    LET e == kernel_state.relation_entries
        row == kernel.row
    IN /\ Len(e) = 3
       /\ e[1].elements.relation = "node"
       /\ e[1].vals = << row.input_val, row.input_id >>
       /\ e[2].elements.relation = "node"
       /\ e[2].vals = << row.out_val, row.node_id >>
       /\ e[3].elements.relation = "exp2_lut"
       /\ e[3].vals = << row.input_val, row.out_val >>

\* C18: every padding row of a padded exp2 table satisfies every constraint
\* of the evaluator, whatever row follows it (a padding row, or the first
\* row of the table after the last one), and the sum of the LogUp fractions
\* of the padded table is the sum over the rows of the table alone, whatever
\* the size it is padded to.
C18_PaddingRows ==
  (kernel.name = "exp2_padded" /\ kernel_state # None) =>
    LET n == Len(kernel.rows)
        unpadded == [k \in 1..(n * 2) |->
                       LET entry == Exp2RelationEntries(
                                      Exp2EvalElements,
                                      kernel.rows[((k - 1) \div 2) + 1])[((k - 1) % 2) + 1]
                       IN [num |-> entry.mult % M31_P,
                           denom |-> Combine(entry.elements, entry.vals)]]
    IN /\ Len(kernel_state.trace) = kernel.size
       /\ \A r \in (n + 1)..kernel.size :
            /\ kernel_state.trace[r] = PaddingRow("exp2")
            /\ AllZero(kernel_state.constraints[r])
       /\ kernel_state.claimed_sum = LogupSum(unpadded)

\* A table of two rows with non-zero multiplicities was padded to two lane
\* widths, and its claimed sum is not zero.
C18_Witness ==
  /\ kernel.name = "exp2_padded"
  /\ kernel_state # None
  /\ Len(kernel.rows) = 2
  /\ kernel.size = 2 * N_LANES
  /\ kernel.rows[1].out_mult = 1
  /\ kernel_state.claimed_sum # ZeroSum
  /\ AllZero(kernel_state.constraints[2 * N_LANES])

\* The limb product agrees with the product of small factors and with
\* multiplication by -1.
MulM31Sanity ==
  /\ \A a, b \in 0..40 : MulM31(a, b) = a * b
  /\ MulM31(M31_P - 1, M31_P - 1) = 1
  /\ MulM31(M31_P - 1, 5) = M31_P - 5
  /\ MulM31(65536, 65536) = 2
  /\ MulM31(2 ^ 30, 4) = 2

\* ------------------------------------------------------ parallel writers
\* Every row task of write_trace_simd has run both its statements.
SimdDone ==
  /\ kernel.name = "write_trace_simd"
  /\ kernel_state # None
  /\ \A t \in 1..NumTasks(kernel_state) : kernel_state.task[t] = "done"

\* C19: under every interleaving of the row tasks of write_trace_simd no
\* packed row of the trace column or of the lookup data is written twice,
\* and once every task has ended each row has been written exactly once, no
\* cell is uninitialized, and row i of the trace column and of the lookup
\* data both hold the multiplicities of input row i: the result is the same
\* whatever the interleaving.
C19_DisjointRowWriters ==
  (kernel.name = "write_trace_simd" /\ kernel_state # None) =>
    LET st == kernel_state
        n == Len(kernel.inputs)
    IN /\ \A r \in 1..Len(st.trace) : st.trace_writes[r] <= 1
       /\ \A r \in 1..Len(st.lookup_data.multiplicities) : st.lookup_writes[r] <= 1
       /\ SimdDone =>
            /\ Len(st.trace) = n
            /\ Len(st.lookup_data.multiplicities) = n
            /\ \A r \in 1..n :
                 /\ st.trace_writes[r] = 1
                 /\ st.lookup_writes[r] = 1
                 /\ st.trace[r] # Uninitialized
                 /\ st.trace[r] = [l \in 1..N_LANES |-> kernel.inputs[r][l].multiplicity]
                 /\ st.lookup_data.multiplicities[r] = st.trace[r]
            /\ st.trace = write_trace_simd(kernel.inputs).trace
            /\ st.lookup_data = write_trace_simd(kernel.inputs).lookup_data
            /\ st.log_size = write_trace_simd(kernel.inputs).log_size

\* Four row tasks have ended, and the last packed row holds the padded
\* table's non-zero multiplicity followed by padding.
C19_Witness ==
  /\ SimdDone
  /\ Len(kernel.inputs) = 4
  /\ kernel_state.trace[3][1] # 0
  /\ kernel_state.trace[4][N_LANES] = 0
  /\ kernel_state.trace_writes = << 1, 1, 1, 1 >>

\* ------------------------------------------------- claims and generators
\* The number of tables of an operator in the PIE.
TablesOf(op) ==
  Cardinality({ i \in 1..Len(pie.trace_tables) : pie.trace_tables[i].op = op })

\* The number of interaction segments written from generators of an
\* operator.
ConsumedOf(op) ==
  Cardinality({ i \in 1..Len(InteractionSegments) : InteractionSegments[i].op = op })

\* In a returned proof every operator has an interaction claim iff it has a
\* main claim iff the PIE holds a table of it.
ClaimsMatchTables ==
  (pc = "returned" /\ result.ok) =>
    \A op \in OpSet :
      /\ (result.proof.interaction_claim[op] # None)
           <=> (result.proof.claim[op] # None)
      /\ (result.proof.claim[op] # None) <=> HasTable(op)

\* C20: in every returned proof, each operator has an interaction claim iff
\* it has a main claim iff the PIE holds a table of it, and every interaction
\* generator stored in phase 1 (one per table) was consumed exactly once in
\* phase 2 (one interaction segment per stored generator, none left).
C20_ClaimsAndGenerators ==
  /\ ClaimsMatchTables
  /\ (pc = "returned" /\ result.ok) =>
       /\ \A op \in OpSet : ConsumedOf(op) = TablesOf(op)
       /\ \A op \in OpSet : interaction_claim_gen[op] = None

\* ------------------------------------------- main segments and main claims
\* The main-trace loop is over: tree_builder holds the segments of the main
\* tree and main_claim the claims that LuminairClaim::log_sizes reads.
MainPhaseOver == pc = "commit_main"

\* Every segment of the main tree has the log-size of its operator's claim.
SegmentsHaveClaimedSize ==
  \A i \in 1..Len(tree_builder) :
    /\ main_claim[tree_builder[i].op] # None
    /\ SegmentLogSize(tree_builder[i]) = main_claim[tree_builder[i].op].log_size

\* For a PIE of distinct operators the segments written into the main tree
\* are as many as the present claims and have their log-sizes.
SegmentsMatchClaims ==
  (MainPhaseOver /\ DistinctOperators) =>
    /\ Len(tree_builder) = NumPresent(main_claim)
    /\ SegmentsHaveClaimedSize

\* C21: after the main-trace phase the segments written into the main tree
\* correspond one to one to the present claims of the main claim, for every
\* PIE, one with two tables of the same operator included: as many segments
\* as present claims, each with the log-size of its operator's claim.
C21_SegmentsMatchClaims ==
  MainPhaseOver =>
    /\ Len(tree_builder) = NumPresent(main_claim)
    /\ SegmentsHaveClaimedSize

\* --------------------------------------- indices of write_interaction_trace
\* The if-let chain is about to call the exp2 lookup write_interaction_trace
\* with both preprocessed LUT columns of the settings.
Exp2LookupCall ==
  /\ pc = "interaction_trace"
  /\ NextSome(idx) <= Len(InteractionOrder)
  /\ InteractionOrder[NextSome(idx)] = "exp2_lookup"
  /\ Len(columns_of(preprocessed_trace, "exp2")) = 2

\* The packed rows the loop of write_interaction_trace visits.
VisitedRows == 1..(2 ^ (interaction_claim_gen["exp2_lookup"].log_size - LOG_N_LANES))

\* Every visited row is an index of the stored multiplicities.
MultiplicityIndexInBounds ==
  Exp2LookupCall =>
    \A row \in VisitedRows :
      row <= Len(interaction_claim_gen["exp2_lookup"].lookup_data.multiplicities)

\* C22: every index used by the exp2 lookup write_interaction_trace is in
\* bounds: each packed row it visits is an index of the stored
\* multiplicities and of both preprocessed LUT columns, for every table
\* write_trace accepts and every LUT log-size of the settings, the padded
\* table's log_size differing from the LUT's included.
C22_IndicesInBounds ==
  Exp2LookupCall =>
    LET exp2_luts == sort_by_col_index(columns_of(preprocessed_trace, "exp2"))
    IN \A row \in VisitedRows :
         /\ row <= Len(interaction_claim_gen["exp2_lookup"].lookup_data.multiplicities)
         /\ row <= Len(gen_column(exp2_luts[1]))
         /\ row <= Len(gen_column(exp2_luts[2]))

====
